---- MODULE Spec2Model ----
(***************************************************************************)
(* The feedback-email scheduler of feedback-server: the FeedbackTracker    *)
(* documents (models/FeedbackTracker.js), the pass processPendingEmails    *)
(* and sendFeedbackEmail (services/emailScheduler.js), the cron handler    *)
(* (api/cron/process-emails.js) and the admin status route                 *)
(* (routes/admin/feedback.js).                                             *)
(*                                                                         *)
(* Time is counted in ticks, TicksPerDay ticks to a calendar day.  A       *)
(* worker is one invocation of the cron handler; its local variables       *)
(* (today, the documents it loaded, results) are the worker's fields.      *)
(* tracker.save() is Mongoose's: it writes the paths assigned a value      *)
(* different from the one the document held, and nothing else.             *)
(***************************************************************************)
EXTENDS Integers, Sequences, FiniteSets, TLC

\* ---------------------------------------------------------------- bounds
TicksPerDay == 2
HorizonDays == 31
MaxTicks == 1
MaxSubmission == 0
MaxAccepted == 2
MaxAdmin == 1
MaxPasses == 2

\* ------------------------------------------------------- program constants
MAX_EMAILS_PER_RUN == 10

Days == {3, 7, 14, 30}
\* variant: the days in ascending order
daysAscending == <<3, 7, 14, 30>>
\* const daysToCheck = [30, 14, 7, 3]
daysToCheck == <<30, 14, 7, 3>>
Statuses == {"pending", "reviewed", "unreviewed", "cancelled"}

\* the order find() returns documents in (insertion order)
OrderIds == <<"t1", "t2", "t3", "t4", "t5", "t6", "t7", "t8", "t9", "t10", "t11">>
Workers == {"w1", "w2"}

Undefined == "undefined"
Null == "null"
NoDate == <<>>
NoKeyError == "SendGrid API key not configured"
StatusError == "Unexpected status code"
SendError == "send error"
StoreError == "store error"

SlotFields == {"scheduledDate", "sent", "sentAt", "error", "messageId"}

\* now, ticks        the clock, and the ticks it made
\* store             the FeedbackTracker collection, by orderId
\* accepted          the messages SendGrid accepted (202), per tracker and day
\* pc .. http        each worker's place in the handler and its local variables
\* adminLeft, passesLeft   the admin updates and the passes still to come
\* attempted, startSent   history: the (orderId, day) pairs the running pass
\*                   called sendFeedbackEmail for, and those it found sent
VARIABLES now, ticks, store, accepted, pc, today, trackers, found, day, dirty,
          results, http, attempted, startSent, adminLeft, passesLeft

vars == <<now, ticks, store, accepted, pc, today, trackers, found, day, dirty,
          results, http, attempted, startSent, adminLeft, passesLeft>>

\* ------------------------------------------------------------ the model
\* EmailScheduleSchema: a slot as createScheduledDates leaves it
NewSlot(date) ==
  [scheduledDate |-> date, sent |-> FALSE, sentAt |-> NoDate,
   error |-> Undefined, messageId |-> NoDate]

\* variant: n added to the date in ticks, not in days
AddTicks(date, n) == date + n

\* day.setDate(day.getDate() + n)
AddDays(date, n) == date + n * TicksPerDay

\* variant: every milestone is scheduled on the day of the first one
createScheduledDatesSameDay(submissionDate) ==
  [d \in Days |-> NewSlot(AddDays(submissionDate, daysToCheck[Len(daysToCheck)]))]

createScheduledDates(submissionDate) ==
  [d \in Days |-> NewSlot(AddDays(submissionDate, d))]

\* FeedbackTrackerSchema with its defaults
NewTracker(id, submissionDate) ==
  [orderId |-> id, submissionDate |-> submissionDate,
   emailSchedule |-> createScheduledDates(submissionDate),
   status |-> "pending", isActive |-> TRUE, updatedAt |-> submissionDate]

\* today.setHours(0, 0, 0, 0)
StartOfDay(t) == t - (t % TicksPerDay)

\* tomorrow.setDate(tomorrow.getDate() + 1)
Tomorrow(td) == AddDays(td, 1)

\* variant: an unsent slot is due on its day and on every later day
SlotDueOnOrAfter(slot, td) ==
  /\ ~slot.sent
  /\ slot.scheduledDate < Tomorrow(td)

\* variant: the window test without the test of sent
SlotDueIgnoringSent(slot, td) ==
  /\ slot.scheduledDate >= td
  /\ slot.scheduledDate < Tomorrow(td)

\* !emailData.sent && scheduledDate >= today && scheduledDate < tomorrow
SlotDue(slot, td) ==
  /\ ~slot.sent
  /\ slot.scheduledDate >= td
  /\ slot.scheduledDate < Tomorrow(td)

\* the filter of FeedbackTracker.find
DueFilter(tr, td) ==
  /\ tr.isActive
  /\ tr.status = "pending"
  /\ \E d \in Days : SlotDue(tr.emailSchedule[d], td)

\* .select('orderId ... emailSchedule status'): the document a pass holds
Project(tr) ==
  [orderId |-> tr.orderId, status |-> tr.status, emailSchedule |-> tr.emailSchedule]

RECURSIVE FindFrom(_, _, _)
FindFrom(st, td, i) ==
  IF i > Len(OrderIds) THEN <<>>
  ELSE IF OrderIds[i] \in DOMAIN st /\ DueFilter(st[OrderIds[i]], td)
       THEN <<Project(st[OrderIds[i]])>> \o FindFrom(st, td, i + 1)
       ELSE FindFrom(st, td, i + 1)

\* variant: find without .limit
NoLimit(s, n) == s

\* .limit(RATE_LIMIT.MAX_EMAILS_PER_RUN)
Limit(s, n) == IF Len(s) <= n THEN s ELSE SubSeq(s, 1, n)

FindDue(st, td) == Limit(FindFrom(st, td, 1), MAX_EMAILS_PER_RUN)

\* for (const day of daysToCheck) { if (due) { ... break } }: the day sent, 0 if none
RECURSIVE DayFrom(_, _, _)
DayFrom(doc, td, i) ==
  IF i > Len(daysToCheck) THEN 0
  ELSE IF SlotDue(doc.emailSchedule[daysToCheck[i]], td) THEN daysToCheck[i]
       ELSE DayFrom(doc, td, i + 1)

\* variant: the first unsent day of daysToCheck, whatever its scheduledDate
DayToSendAnyUnsent(doc, td) ==
  IF \A d \in Days : doc.emailSchedule[d].sent THEN 0
  ELSE CHOOSE d \in Days :
         /\ ~doc.emailSchedule[d].sent
         /\ \A e \in Days : ~doc.emailSchedule[e].sent => e <= d

\* variant: the loop over daysToCheck starting at its second day
DayToSendSkippingFirst(doc, td) == DayFrom(doc, td, 2)

DayToSend(doc, td) == DayFrom(doc, td, 1)

\* variant: every tracker found counted as skipped
SkippedAll(n, processed) == n

\* variant: the tracker the budget check stopped at is not counted as skipped
SkippedOffByOne(n, processed) == n - processed - 1

\* results.skipped = trackers.length - results.processed
SkippedCount(n, processed) == n - processed

NewResults ==
  [processed |-> 0, sent |-> 0, failed |-> 0, skipped |-> 0, timedOut |-> FALSE,
   errors |-> <<>>]

\* the paths an assignment marks modified: those whose value changes
Modified(old, new) == {f \in SlotFields : old[f] # new[f]}

\* variant: save writing the whole document the pass holds
SaveWholeDocument(st, doc, d, paths) ==
  [st EXCEPT ![doc.orderId].emailSchedule = doc.emailSchedule,
             ![doc.orderId].status = doc.status]

\* tracker.save() of a slot: $set of the modified paths of emailSchedule[d]
SaveSlot(st, doc, d, paths) ==
  [st EXCEPT ![doc.orderId].emailSchedule[d] =
     [f \in SlotFields |-> IF f \in paths THEN doc.emailSchedule[d][f] ELSE @[f]]]

\* variant: the 202 branch without emailData.error = null
SentSlotKeepingError(slot, t, id) ==
  [slot EXCEPT !.sent = TRUE, !.sentAt = <<t>>, !.messageId = id]

\* variant: the 202 branch records the message and leaves sent as it was
SentSlotUnmarked(slot, t, id) ==
  [slot EXCEPT !.sentAt = <<t>>, !.error = Null, !.messageId = id]

\* the slot fields set when SendGrid answers 202
SentSlot(slot, t, id) ==
  [slot EXCEPT !.sent = TRUE, !.sentAt = <<t>>, !.error = Null, !.messageId = id]

\* variant: the failure branches without sent = false
FailedSlotKeepingSent(slot, msg) == [slot EXCEPT !.error = msg]

\* the slot fields set on a failure
FailedSlot(slot, msg) == [slot EXCEPT !.error = msg, !.sent = FALSE]

\* variant: isActive inverted instead of set to false
MarkAsToggling(st, id, status, t) ==
  [st EXCEPT ![id].status = status, ![id].isActive = ~@, ![id].updatedAt = t]

\* markAsReviewed / markAsUnreviewed / cancelTracking, saved
MarkAs(st, id, status, t) ==
  [st EXCEPT ![id].status = status, ![id].isActive = FALSE, ![id].updatedAt = t]

markAsReviewed(st, id, t) == MarkAs(st, id, "reviewed", t)
\* variant: the status set without isActive = false
markAsUnreviewedStatusOnly(st, id, t) ==
  [st EXCEPT ![id].status = "unreviewed", ![id].updatedAt = t]
markAsUnreviewed(st, id, t) == MarkAs(st, id, "unreviewed", t)
cancelTracking(st, id, t) == MarkAs(st, id, "cancelled", t)

\* variant: the else branch resetting submissionDate too
SetStatusResubmitting(st, id, status, t) ==
  [st EXCEPT ![id].status = status, ![id].updatedAt = t, ![id].submissionDate = t]

\* the else branch of the status route: status and updatedAt only
SetStatus(st, id, status, t) ==
  [st EXCEPT ![id].status = status, ![id].updatedAt = t]

\* ------------------------------------------------------------ worker state
Cur(w) == Head(trackers[w])
Idle(w) == pc[w] \in {"idle", "off"}
Running(w) == pc[w] \in {"loop", "saveSent", "saveFailed", "saveCatch", "close"}

ClearLocals(w) ==
  /\ today' = [today EXCEPT ![w] = 0]
  /\ trackers' = [trackers EXCEPT ![w] = <<>>]
  /\ found' = [found EXCEPT ![w] = 0]
  /\ day' = [day EXCEPT ![w] = 0]
  /\ dirty' = [dirty EXCEPT ![w] = {}]
  /\ results' = [results EXCEPT ![w] = NewResults]
  /\ attempted' = [attempted EXCEPT ![w] = {}]
  /\ startSent' = [startSent EXCEPT ![w] = {}]

SentPairs(st) ==
  {p \in (DOMAIN st) \X Days : st[p[1]].emailSchedule[p[2]].sent}

\* ------------------------------------------------------------- cron handler
\* variant: the due set is queried before the Authorization header is checked
CronRejectedReading(w) ==
  /\ pc[w] = "idle"
  /\ \E code \in {500, 401} : http' = [http EXCEPT ![w] = code]
  /\ pc' = [pc EXCEPT ![w] = "done"]
  /\ today' = [today EXCEPT ![w] = StartOfDay(now)]
  /\ trackers' = [trackers EXCEPT ![w] = FindDue(store, StartOfDay(now))]
  /\ UNCHANGED <<adminLeft, passesLeft, now, ticks, store, accepted, found,
                 day, dirty, results, attempted, startSent>>

\* CRON_SECRET missing (500) or a wrong Authorization header (401)
CronRejected(w) ==
  /\ pc[w] = "idle"
  /\ \E code \in {500, 401} : http' = [http EXCEPT ![w] = code]
  /\ pc' = [pc EXCEPT ![w] = "done"]
  /\ UNCHANGED <<adminLeft, passesLeft, now, ticks, store, accepted, today,
                 trackers, found, day, dirty, results, attempted, startSent>>

\* connectToDatabase throws: the catch answers 500
ConnectFails(w) ==
  /\ pc[w] = "idle"
  /\ http' = [http EXCEPT ![w] = 500]
  /\ pc' = [pc EXCEPT ![w] = "done"]
  /\ UNCHANGED <<adminLeft, passesLeft, now, ticks, store, accepted, today,
                 trackers, found, day, dirty, results, attempted, startSent>>

\* processPendingEmails up to the loop: today and the due set
StartPass(w) ==
  /\ pc[w] = "idle"
  /\ passesLeft > 0
  /\ passesLeft' = passesLeft - 1
  /\ today' = [today EXCEPT ![w] = StartOfDay(now)]
  /\ trackers' = [trackers EXCEPT ![w] = FindDue(store, StartOfDay(now))]
  /\ found' = [found EXCEPT ![w] = Len(trackers'[w])]
  /\ results' = [results EXCEPT ![w] = NewResults]
  /\ startSent' = [startSent EXCEPT ![w] = SentPairs(store)]
  /\ pc' = [pc EXCEPT ![w] = "loop"]
  /\ UNCHANGED <<adminLeft, now, ticks, store, accepted, day, dirty, http,
                 attempted>>

\* variant: the handler answers 200 after processPendingEmails threw
ThrowAnswersOk(w) ==
  /\ http' = [http EXCEPT ![w] = 200]
  /\ pc' = [pc EXCEPT ![w] = "done"]

\* a store operation throws: processPendingEmails rethrows, the handler answers 500
Throw(w) ==
  /\ http' = [http EXCEPT ![w] = 500]
  /\ pc' = [pc EXCEPT ![w] = "done"]

\* FeedbackTracker.find throws
FindFails(w) ==
  /\ pc[w] = "idle"
  /\ today' = [today EXCEPT ![w] = StartOfDay(now)]
  /\ Throw(w)
  /\ UNCHANGED <<adminLeft, passesLeft, now, ticks, store, accepted, trackers,
                 found, day, dirty, results, attempted, startSent>>

\* the loop is over: return results, the handler answers 200
ReturnResults(w) ==
  /\ pc[w] = "loop"
  /\ trackers[w] = <<>>
  /\ http' = [http EXCEPT ![w] = 200]
  /\ pc' = [pc EXCEPT ![w] = "done"]
  /\ UNCHANGED <<adminLeft, passesLeft, now, ticks, store, accepted, today,
                 trackers, found, day, dirty, results, attempted, startSent>>

\* elapsed > VERCEL_TIMEOUT_MS at the head of an iteration: break, then return
TimeOut(w) ==
  /\ pc[w] = "loop"
  /\ trackers[w] # <<>>
  /\ results' = [results EXCEPT ![w].timedOut = TRUE,
                                ![w].skipped =
                                  SkippedCount(found[w], results[w].processed)]
  /\ http' = [http EXCEPT ![w] = 200]
  /\ pc' = [pc EXCEPT ![w] = "done"]
  /\ UNCHANGED <<adminLeft, passesLeft, now, ticks, store, accepted, today,
                 trackers, found, day, dirty, attempted, startSent>>

\* ------------------------------------------------------- sendFeedbackEmail
CurSlot(w) == Cur(w).emailSchedule[day[w]]

\* the list with the slot d of its first document replaced
WithSlot(w, d, slot) ==
  [trackers EXCEPT ![w] = <<[Cur(w) EXCEPT !.emailSchedule[d] = slot]>> \o Tail(@)]

\* variant: the failure counted but not pushed to results.errors
FailedNotRecorded(r, doc, d) == [r EXCEPT !.failed = @ + 1]

\* results after sendFeedbackEmail returned { success: false, error }
Failed(r, doc, d) ==
  [r EXCEPT !.failed = @ + 1,
            !.errors = Append(@, [orderId |-> doc.orderId, day |-> d,
                                  error |-> doc.emailSchedule[d].error])]

\* what the mail capability does with one call of sendFeedbackEmail: the API key
\* is missing, sgMail.send answers 202 or another status, or it throws
MailOutcomes == {"nokey", "accepted", "rejected", "throws"}

\* variant: the slot marked sent whatever the outcome
SlotAfterAlwaysSent(slot, outcome, t, id) == SentSlot(slot, t, id)

\* variant: the no-key branch also clears sentAt
SlotAfterNoKeyClearing(slot, outcome, t, id) ==
  CASE outcome = "nokey" -> [slot EXCEPT !.error = NoKeyError, !.sentAt = NoDate]
    [] outcome = "accepted" -> SentSlot(slot, t, id)
    [] outcome = "rejected" -> FailedSlot(slot, StatusError)
    [] OTHER -> FailedSlot(slot, SendError)

\* the slot in memory once the outcome is known, before the save
SlotAfter(slot, outcome, t, id) ==
  CASE outcome = "nokey" -> [slot EXCEPT !.error = NoKeyError]
    [] outcome = "accepted" -> SentSlot(slot, t, id)
    [] outcome = "rejected" -> FailedSlot(slot, StatusError)
    [] OTHER -> FailedSlot(slot, SendError)

\* the save that follows each outcome
SaveAfter(outcome) ==
  CASE outcome = "accepted" -> "saveSent"
    [] outcome = "throws" -> "saveCatch"
    [] OTHER -> "saveFailed"

\* tracker.emailSchedule.day30.sent && tracker.status === 'pending'
ShouldClose(doc) == doc.emailSchedule[30].sent /\ doc.status = "pending"

\* variant: the iteration ends without moving to the next tracker
AfterSendStaying(w) ==
  IF ShouldClose(Cur(w))
  THEN /\ pc' = [pc EXCEPT ![w] = "close"]
       /\ UNCHANGED trackers
  ELSE /\ pc' = [pc EXCEPT ![w] = "loop"]
       /\ UNCHANGED trackers

\* the end of an iteration that sent or failed: markAsUnreviewed is next, or the
\* next tracker
AfterSend(w) ==
  IF ShouldClose(Cur(w))
  THEN /\ pc' = [pc EXCEPT ![w] = "close"]
       /\ UNCHANGED trackers
  ELSE /\ pc' = [pc EXCEPT ![w] = "loop"]
       /\ trackers' = [trackers EXCEPT ![w] = Tail(@)]

\* one iteration up to the first save: the day is chosen from daysToCheck,
\* sendFeedbackEmail is called and the mail capability answers
Attempt(w) ==
  /\ pc[w] = "loop"
  /\ trackers[w] # <<>>
  /\ LET d == DayToSend(Cur(w), today[w])
         id == Cur(w).orderId IN
       /\ day' = [day EXCEPT ![w] = d]
       /\ IF d # 0
          THEN \E outcome \in MailOutcomes :
                 LET n == accepted[id][d] + (IF outcome = "accepted" THEN 1 ELSE 0)
                     old == Cur(w).emailSchedule[d]
                     slot == SlotAfter(old, outcome, now, <<n>>) IN
                   /\ n <= MaxAccepted
                   /\ accepted' = [accepted EXCEPT ![id][d] = n]
                   /\ results' = [results EXCEPT ![w].processed = @ + 1]
                   /\ attempted' = [attempted EXCEPT ![w] = @ \cup {<<id, d>>}]
                   /\ trackers' = WithSlot(w, d, slot)
                   /\ dirty' = [dirty EXCEPT ![w] = Modified(old, slot)]
                   /\ pc' = [pc EXCEPT ![w] = SaveAfter(outcome)]
          ELSE /\ AfterSend(w)
               /\ UNCHANGED <<accepted, results, attempted, dirty>>
  /\ UNCHANGED <<adminLeft, passesLeft, now, ticks, store, today, found, http,
                 startSent>>

\* the save of the 202 branch succeeds: { success: true }
SaveSent(w) ==
  /\ pc[w] = "saveSent"
  /\ store' = SaveSlot(store, Cur(w), day[w], dirty[w])
  /\ dirty' = [dirty EXCEPT ![w] = {}]
  /\ results' = [results EXCEPT ![w].sent = @ + 1]
  /\ AfterSend(w)
  /\ UNCHANGED <<adminLeft, passesLeft, now, ticks, accepted, today, found,
                 day, http, attempted, startSent>>

\* the save of the no-key or non-202 branch succeeds: { success: false }
SaveFailed(w) ==
  /\ pc[w] = "saveFailed"
  /\ store' = SaveSlot(store, Cur(w), day[w], dirty[w])
  /\ dirty' = [dirty EXCEPT ![w] = {}]
  /\ results' = [results EXCEPT ![w] = Failed(@, Cur(w), day[w])]
  /\ AfterSend(w)
  /\ UNCHANGED <<adminLeft, passesLeft, now, ticks, accepted, today, found,
                 day, http, attempted, startSent>>

\* a save inside the try throws: the catch block sets error and sent = false.
\* sent goes back to the value the document was loaded with; whether that path
\* stays marked modified depends on the Mongoose version, so both are possible.
SaveThrows(w) ==
  /\ pc[w] \in {"saveSent", "saveFailed"}
  /\ LET slot == FailedSlot(CurSlot(w), StoreError)
         marked == dirty[w] \cup Modified(CurSlot(w), slot) IN
       /\ trackers' = WithSlot(w, day[w], slot)
       /\ \E paths \in {marked, marked \ {"sent"}} :
            dirty' = [dirty EXCEPT ![w] = paths]
  /\ pc' = [pc EXCEPT ![w] = "saveCatch"]
  /\ UNCHANGED <<adminLeft, passesLeft, now, ticks, store, accepted, today,
                 found, day, results, http, attempted, startSent>>

\* the save of the catch block succeeds: { success: false }
SaveCatch(w) ==
  /\ pc[w] = "saveCatch"
  /\ store' = SaveSlot(store, Cur(w), day[w], dirty[w])
  /\ dirty' = [dirty EXCEPT ![w] = {}]
  /\ results' = [results EXCEPT ![w] = Failed(@, Cur(w), day[w])]
  /\ AfterSend(w)
  /\ UNCHANGED <<adminLeft, passesLeft, now, ticks, accepted, today, found,
                 day, http, attempted, startSent>>

\* the save of the catch block throws too: sendFeedbackEmail throws
SaveCatchThrows(w) ==
  /\ pc[w] = "saveCatch"
  /\ Throw(w)
  /\ UNCHANGED <<adminLeft, passesLeft, now, ticks, store, accepted, today,
                 trackers, found, day, dirty, results, attempted, startSent>>

\* ------------------------------------------------- after sendFeedbackEmail
\* markAsUnreviewed, then the next tracker
CloseTracker(w) ==
  /\ pc[w] = "close"
  /\ store' = markAsUnreviewed(store, Cur(w).orderId, now)
  /\ trackers' = [trackers EXCEPT ![w] = Tail(@)]
  /\ pc' = [pc EXCEPT ![w] = "loop"]
  /\ UNCHANGED <<adminLeft, passesLeft, now, ticks, accepted, today, found,
                 day, dirty, results, http, attempted, startSent>>

\* the save of markAsUnreviewed throws
CloseThrows(w) ==
  /\ pc[w] = "close"
  /\ Throw(w)
  /\ UNCHANGED <<adminLeft, passesLeft, now, ticks, store, accepted, today,
                 trackers, found, day, dirty, results, attempted, startSent>>

\* the response is sent and the invocation ends: nothing in memory survives
Finish(w) ==
  /\ pc[w] = "done"
  /\ ClearLocals(w)
  /\ http' = [http EXCEPT ![w] = 0]
  /\ pc' = [pc EXCEPT ![w] = "idle"]
  /\ UNCHANGED <<adminLeft, passesLeft, now, ticks, store, accepted>>

\* the platform kills the invocation at an await
Interrupt(w) ==
  /\ Running(w)
  /\ ClearLocals(w)
  /\ http' = [http EXCEPT ![w] = 0]
  /\ pc' = [pc EXCEPT ![w] = "idle"]
  /\ UNCHANGED <<adminLeft, passesLeft, now, ticks, store, accepted>>

\* --------------------------------------------------------- admin route
\* PATCH /feedback-trackers/:orderId/status with a valid status
UpdateStatus(st, id, status, t) ==
  CASE status = "reviewed" -> markAsReviewed(st, id, t)
    [] status = "unreviewed" -> markAsUnreviewed(st, id, t)
    [] status = "cancelled" -> cancelTracking(st, id, t)
    [] OTHER -> SetStatus(st, id, status, t)

AdminUpdate ==
  /\ adminLeft > 0
  /\ adminLeft' = adminLeft - 1
  /\ \E id \in DOMAIN store, status \in Statuses :
       store' = UpdateStatus(store, id, status, now)
  /\ UNCHANGED <<now, ticks, accepted, pc, today, trackers, found, day, dirty,
                 results, http, attempted, startSent, passesLeft>>

\* ------------------------------------------------------------------ time
Tick ==
  /\ \A w \in Workers : Idle(w)
  /\ ticks < MaxTicks
  /\ now' = now + 1
  /\ ticks' = ticks + 1
  /\ UNCHANGED <<store, accepted, pc, today, trackers, found, day, dirty,
                 results, http, attempted, startSent, adminLeft, passesLeft>>

\* ------------------------------------------------------- specifications
DayOf(t) == StartOfDay(t)
StartTimes == 0 .. (HorizonDays * TicksPerDay)
SubmissionDates == 0 .. MaxSubmission

\* The trackers ids were created, each at a submission date, and no pass has
\* touched them when the first request modelled arrives, at any later time.
Created(ids) ==
  {[id \in ids |-> NewTracker(id, sub[id])] : sub \in [ids -> SubmissionDates]}

InitWith(stores, ws, admin, passes) ==
  /\ now \in StartTimes
  /\ ticks = 0
  /\ store \in stores
  /\ \A id \in DOMAIN store : store[id].submissionDate <= now
  /\ accepted = [id \in DOMAIN store |-> [d \in Days |-> 0]]
  /\ pc = [w \in Workers |-> IF w \in ws THEN "idle" ELSE "off"]
  /\ today = [w \in Workers |-> 0]
  /\ trackers = [w \in Workers |-> <<>>]
  /\ found = [w \in Workers |-> 0]
  /\ day = [w \in Workers |-> 0]
  /\ dirty = [w \in Workers |-> {}]
  /\ results = [w \in Workers |-> NewResults]
  /\ http = [w \in Workers |-> 0]
  /\ attempted = [w \in Workers |-> {}]
  /\ startSent = [w \in Workers |-> {}]
  /\ adminLeft = admin
  /\ passesLeft = passes

Init == InitWith(Created({"t1"}), {"w1"}, MaxAdmin, MaxPasses)

Handler(w) ==
  \/ CronRejected(w)
  \/ ConnectFails(w)
  \/ StartPass(w)
  \/ FindFails(w)
  \/ ReturnResults(w)
  \/ TimeOut(w)
  \/ Attempt(w)
  \/ SaveSent(w)
  \/ SaveFailed(w)
  \/ SaveThrows(w)
  \/ SaveCatch(w)
  \/ SaveCatchThrows(w)
  \/ CloseTracker(w)
  \/ CloseThrows(w)
  \/ Finish(w)
  \/ Interrupt(w)

Next ==
  \/ \E w \in Workers : Handler(w)
  \/ AdminUpdate
  \/ Tick

Spec == Init /\ [][Next]_vars

\* two trackers and one invocation that runs a pass
InitBatch == InitWith(Created({"t1", "t2"}), {"w1"}, 1, 1)
SpecBatch == InitBatch /\ [][Next]_vars

\* one tracker and two invocations that overlap, on the days of the first and
\* of the last milestone
OverlapStarts ==
  {t \in StartTimes : \E d \in {3, 30} : StartOfDay(t) = AddDays(0, d)}
InitOverlap == InitWith(Created({"t1"}), {"w1", "w2"}, 1, 2) /\ now \in OverlapStarts
SpecOverlap == InitOverlap /\ [][Next]_vars

\* one tracker, one pass, and one status update more than in Spec: a status
\* set by the route can be set again
InitAdmin ==
  InitWith(Created({"t1"}), {"w1"}, MaxAdmin + 1, 1) /\ now \in OverlapStarts
SpecAdmin == InitAdmin /\ [][Next]_vars

\* one tracker whose four scheduledDates are any dates of two consecutive days
\* (the schema asks only for a Date), so that several slots can be due at once
AbnormalDates == {t \in StartTimes : DayOf(t) \in {AddDays(0, 3), AddDays(0, 4)}}
AbnormalStores ==
  {[id \in {"t1"} |->
      [NewTracker(id, 0) EXCEPT !.emailSchedule = [d \in Days |-> NewSlot(f[d])]]] :
    f \in [Days -> {AddDays(0, 3), AddDays(0, 4)}]}
InitAbnormal ==
  InitWith(AbnormalStores, {"w1"}, 1, 2) /\ now \in AbnormalDates
SpecAbnormal == InitAbnormal /\ [][Next]_vars

\* Eleven trackers submitted the same day, on the day their day-3 slot is due,
\* with a mail capability that accepts every message and a store that answers:
\* a pass meets the cap of find.
CapIds == {OrderIds[i] : i \in 1 .. Len(OrderIds)}
CapStarts == {t \in StartTimes : DayOf(t) = AddDays(0, 3)}
InitCap ==
  /\ InitWith({[id \in CapIds |-> NewTracker(id, 0)]}, {"w1"}, 1, 2)
  /\ now \in CapStarts

\* sgMail.send answers 202
AttemptAccepted(w) == Attempt(w) /\ pc'[w] = "saveSent"

NextCap ==
  \/ \E w \in Workers :
       \/ StartPass(w)
       \/ AttemptAccepted(w)
       \/ SaveSent(w)
       \/ TimeOut(w)
       \/ ReturnResults(w)
       \/ Finish(w)
  \/ AdminUpdate

SpecCap == InitCap /\ [][NextCap]_vars

\* One tracker and passes that never overlap, are never interrupted and whose
\* store operations all succeed; the mail capability may still refuse or throw.
NextComplete ==
  \/ \E w \in Workers :
       \/ CronRejected(w)
       \/ StartPass(w)
       \/ ReturnResults(w)
       \/ TimeOut(w)
       \/ Attempt(w)
       \/ SaveSent(w)
       \/ SaveFailed(w)
       \/ SaveCatch(w)
       \/ CloseTracker(w)
       \/ Finish(w)
  \/ AdminUpdate
  \/ Tick

SpecComplete == Init /\ [][NextComplete]_vars

\* The eleven trackers of InitCap with a mail capability that answers every
\* message with a status other than 202, and passes that run to their end.
AttemptRejected(w) ==
  /\ Attempt(w)
  /\ pc'[w] = "saveFailed"
  /\ trackers'[w][1].emailSchedule[day'[w]].error = StatusError

NextStarve ==
  \/ \E w \in Workers :
       \/ StartPass(w)
       \/ AttemptRejected(w)
       \/ SaveFailed(w)
       \/ ReturnResults(w)
       \/ Finish(w)
  \/ AdminUpdate

SpecStarve == InitCap /\ [][NextStarve]_vars

\* ------------------------------------------------------------ properties
Pairs == (DOMAIN store) \X Days
Slot(p) == store[p[1]].emailSchedule[p[2]]
InWindow(date, td) == date >= td /\ date < Tomorrow(td)
FailureMessages == {NoKeyError, StatusError, SendError, StoreError}

\* C1: for every tracker and milestone, exactly one email is emitted: never more
\* than one, and never none once the due day is over although a pass attempted
\* the slot (its attempt left a failure in the store).
C1_ExactlyOneEmail ==
  \A p \in Pairs :
    /\ accepted[p[1]][p[2]] <= 1
    /\ (/\ DayOf(Slot(p).scheduledDate) < DayOf(now)
        /\ Slot(p).error \in FailureMessages)
       => accepted[p[1]][p[2]] = 1

\* C2: a pass attempts only a slot whose scheduledDate lies in its window
\* [today, tomorrow), and a slot of the store changes only if it is the slot
\* being attempted: the tracker's other slots keep sent, sentAt, error and
\* messageId.
C2_OnlyDueSlotTouched ==
  [][/\ \A w \in Workers : \A p \in attempted'[w] :
          InWindow(Slot(p).scheduledDate, today'[w])
     /\ \A p \in Pairs :
          store'[p[1]].emailSchedule[p[2]] # Slot(p) =>
            \E w \in Workers :
              /\ Running(w)
              /\ trackers[w] # <<>>
              /\ Cur(w).orderId = p[1]
              /\ day[w] = p[2]
              /\ p \in attempted[w]
              /\ InWindow(Slot(p).scheduledDate, today[w])]_vars

\* a pass run on the day of the day-3 milestone sent day 3, and day 7, 14 and 30
\* are as they were created
C2_Witness ==
  \E w \in Workers :
    /\ pc[w] = "done"
    /\ attempted[w] = {<<"t1", 3>>}
    /\ store["t1"].emailSchedule[3].sent
    /\ \A d \in {7, 14, 30} :
         store["t1"].emailSchedule[d] = NewSlot(AddDays(store["t1"].submissionDate, d))

\* C3: a slot persisted with sent = true when a pass starts is not attempted by
\* that pass.
C3_SentSlotNotAttempted ==
  \A w \in Workers : attempted[w] \cap startSent[w] = {}

\* a second pass on the day of a slot that the first pass sent has returned
\* without a send
C3_Witness ==
  \E w \in Workers, p \in Pairs :
    /\ pc[w] = "done"
    /\ http[w] = 200
    /\ p \in startSent[w]
    /\ InWindow(Slot(p).scheduledDate, today[w])
    /\ store[p[1]].status = "pending"
    /\ results[w].processed = 0

\* C4: a pass makes at most one send attempt per tracker; the slot attempted is
\* the due slot of the largest day (30, 14, 7, 3), and the other due slots are
\* not written.
C4_OneAttemptLargestDay ==
  [][/\ \A w \in Workers : \A p \in attempted'[w] \ attempted[w] :
          /\ \A q \in attempted[w] : q[1] # p[1]
          /\ \A d \in Days :
               d # p[2] /\ SlotDue(Cur(w).emailSchedule[d], today[w]) =>
                 /\ d < p[2]
                 /\ \A v \in Workers : <<p[1], d>> \notin attempted'[v]
     /\ \A q \in Pairs :
          store'[q[1]].emailSchedule[q[2]] # Slot(q) =>
            \E w \in Workers : q \in attempted[w] /\ day[w] = q[2]]_vars

\* two slots of the tracker were due, the larger day was sent and saved, and the
\* smaller is still unsent
C4_Witness ==
  \E w \in Workers, d \in Days :
    /\ pc[w] = "done"
    /\ results[w].sent = 1
    /\ \E p \in attempted[w] :
         /\ d < p[2]
         /\ Slot(p).sent
         /\ SlotDue(store[p[1]].emailSchedule[d], today[w])

\* C5: a pass that stops on its time budget after K of the N trackers found
\* answers normally with timedOut = true and skipped = N - K; the outcome of each
\* of the K attempts is in the store, nothing modified in memory is unsaved and
\* no slot is half written.
C5_BudgetStop ==
  \A w \in Workers :
    pc[w] = "done" /\ results[w].timedOut =>
      /\ http[w] = 200
      /\ results[w].processed < found[w]
      /\ results[w].skipped = found[w] - results[w].processed
      /\ results[w].processed = Cardinality(attempted[w])
      /\ results[w].sent + results[w].failed = results[w].processed
      /\ results[w].sent = Cardinality({p \in attempted[w] : Slot(p).sent})
      /\ dirty[w] = {}
      /\ \A p \in attempted[w] :
           \/ Slot(p).sent /\ Slot(p).sentAt # NoDate /\ Slot(p).error = Null
           \/ ~Slot(p).sent /\ Slot(p).error \in FailureMessages
      /\ \A p \in Pairs : Slot(p).sent => Slot(p).sentAt # NoDate

\* two trackers were found, the first was sent and saved, the budget ended the
\* pass before the second
C5_Witness ==
  \E w \in Workers :
    /\ pc[w] = "done"
    /\ results[w].timedOut
    /\ found[w] = 2
    /\ results[w].processed = 1
    /\ results[w].sent = 1
    /\ results[w].skipped = 1
    /\ Len(trackers[w]) = 1

\* C6: after the day-30 send of a tracker succeeded (the tracker the pass holds
\* is pending), the pass goes to the next tracker only by a step that leaves
\* the tracker unreviewed and inactive in the store.
C6_Day30Closes ==
  [][\A w \in Workers :
       (/\ pc[w] \in {"saveSent", "close"}
        /\ day[w] = 30
        /\ Cur(w).emailSchedule[30].sent
        /\ Cur(w).status = "pending"
        /\ pc'[w] = "loop") =>
         /\ store'[Cur(w).orderId].status = "unreviewed"
         /\ ~store'[Cur(w).orderId].isActive]_vars

\* the pass sent day 30, closed the tracker and is back at the head of the loop
C6_Witness ==
  \E w \in Workers :
    /\ pc[w] = "loop"
    /\ day[w] = 30
    /\ attempted[w] = {<<"t1", 30>>}
    /\ results[w].sent = 1
    /\ adminLeft = MaxAdmin
    /\ store["t1"].emailSchedule[30].sent
    /\ store["t1"].status = "unreviewed"
    /\ ~store["t1"].isActive

\* C7: when sgMail.send throws or answers another status than 202 and the
\* failure is saved, the slot in the store has sent = false, no sentAt, no
\* messageId and the failure message as error; status and isActive are as before.
C7_MailFailureLeavesSlotUnsent ==
  [][\A w \in Workers :
       (/\ pc[w] \in {"saveFailed", "saveCatch"}
        /\ CurSlot(w).error \in {StatusError, SendError}
        /\ pc'[w] \in {"loop", "close"}) =>
         LET id == Cur(w).orderId
             slot == store'[id].emailSchedule[day[w]] IN
           /\ ~slot.sent
           /\ slot.sentAt = NoDate
           /\ slot.messageId = NoDate
           /\ slot.error = CurSlot(w).error
           /\ store'[id].status = store[id].status
           /\ store'[id].isActive = store[id].isActive]_vars

\* C8: a slot with a failure recorded, still unsent and in the window of the day
\* of a tracker still pending and active, is in the set the next pass finds and
\* is the slot that pass attempts for the tracker; when the attempt is accepted
\* and saved, the slot in the store has error null and sent true.
C8_FailedSlotRetried ==
  [][\A w \in Workers :
       /\ (pc[w] = "idle" /\ pc'[w] = "loop") =>
            \A p \in Pairs :
              (/\ Slot(p).error \in FailureMessages
               /\ SlotDue(Slot(p), StartOfDay(now))
               /\ DueFilter(store[p[1]], StartOfDay(now))) =>
                \E i \in 1 .. Len(trackers'[w]) :
                  /\ trackers'[w][i].orderId = p[1]
                  /\ DayToSend(trackers'[w][i], today'[w]) = p[2]
       /\ (pc[w] = "loop" /\ pc'[w] \in {"saveSent", "saveFailed", "saveCatch"}) =>
            /\ day'[w] = DayToSend(Cur(w), today[w])
            /\ <<Cur(w).orderId, day'[w]>> \in attempted'[w]
       /\ (pc[w] = "saveSent" /\ pc'[w] \in {"loop", "close"}) =>
            /\ store'[Cur(w).orderId].emailSchedule[day[w]].sent
            /\ store'[Cur(w).orderId].emailSchedule[day[w]].error = Null]_vars

\* the store holds the failure of an earlier pass, this pass attempted the slot
\* again, the mail was accepted and the save is next
C8_Witness ==
  \E w \in Workers :
    /\ pc[w] = "saveSent"
    /\ Slot(<<Cur(w).orderId, day[w]>>).error \in FailureMessages
    /\ ~Slot(<<Cur(w).orderId, day[w]>>).sent
    /\ CurSlot(w).sent
    /\ CurSlot(w).error = Null
    /\ "error" \in dirty[w]

\* C9: every slot of the store with sent = true has a sentAt and no error.
C9_SentHasDateAndNoError ==
  \A p \in Pairs :
    Slot(p).sent => Slot(p).sentAt # NoDate /\ Slot(p).error \in {Null, Undefined}

\* C10: a tracker of the store is inactive exactly when its status is not pending.
C10_InactiveIffNotPending ==
  \A id \in DOMAIN store : (~store[id].isActive) <=> (store[id].status # "pending")

\* C11: a slot of the store has sent = true only if the mail capability accepted
\* a message for that tracker and day before.
C11_SentOnlyAfterAccepted ==
  \A p \in Pairs : Slot(p).sent => accepted[p[1]][p[2]] >= 1

\* the second pass of the run ended; its one send was accepted and saved
C11_Witness ==
  \E w \in Workers, p \in Pairs :
    /\ pc[w] = "done"
    /\ passesLeft = 0
    /\ results[w].sent = 1
    /\ p \in attempted[w]
    /\ Slot(p).sent
    /\ accepted[p[1]][p[2]] = 1

\* the trackers of the store that satisfy the filter of find on the day td
Satisfying(st, td) == {id \in DOMAIN st : DueFilter(st[id], td)}

\* C12: the set a pass finds holds only trackers that are active, pending and
\* have an unsent slot in [today, tomorrow) when the query runs; it holds at most
\* MAX_EMAILS_PER_RUN trackers, so the pass attempts at most that many sends; and
\* it holds every such tracker when there are at most MAX_EMAILS_PER_RUN of them.
C12_DueSet ==
  [][\A w \in Workers :
       /\ (pc[w] = "idle" /\ pc'[w] = "loop") =>
            LET td == StartOfDay(now)
                ids == {trackers'[w][i].orderId : i \in 1 .. Len(trackers'[w])} IN
              /\ today'[w] = td
              /\ ids \subseteq Satisfying(store, td)
              /\ Cardinality(ids) = Len(trackers'[w])
              /\ Len(trackers'[w]) <= MAX_EMAILS_PER_RUN
              /\ Cardinality(Satisfying(store, td)) <= MAX_EMAILS_PER_RUN =>
                   ids = Satisfying(store, td)
       /\ results'[w].processed <= MAX_EMAILS_PER_RUN
       /\ Cardinality(attempted'[w]) <= MAX_EMAILS_PER_RUN]_vars

\* eleven trackers satisfied the filter, the pass found ten and attempted ten
C12_Witness ==
  \E w \in Workers :
    /\ pc[w] = "done"
    /\ found[w] = MAX_EMAILS_PER_RUN
    /\ results[w].processed = MAX_EMAILS_PER_RUN
    /\ Cardinality(DOMAIN store) > MAX_EMAILS_PER_RUN
    /\ Cardinality(Satisfying(store, today[w])) = 1
    /\ adminLeft = 1

\* C13: when sgMail.send throws or answers another status than 202 and the
\* failure is saved, the pass does not throw: failed is one more, errors gets the
\* tracker's orderId, the day and the message, and the pass is at the next
\* tracker.  The pass ends with an exception only from a store operation: the
\* query, the save of the catch block, or the save of markAsUnreviewed.
C13_MailFailureDoesNotThrow ==
  [][\A w \in Workers :
       /\ (/\ pc[w] \in {"saveFailed", "saveCatch"}
           /\ CurSlot(w).error \in {StatusError, SendError}
           /\ pc'[w] \in {"loop", "close"}) =>
            /\ pc'[w] = "loop"
            /\ trackers'[w] = Tail(trackers[w])
            /\ results'[w].failed = results[w].failed + 1
            /\ results'[w].errors =
                 Append(results[w].errors,
                        [orderId |-> Cur(w).orderId, day |-> day[w],
                         error |-> CurSlot(w).error])
            /\ http'[w] = http[w]
       /\ (pc[w] \in {"loop", "saveSent", "saveFailed"}) =>
            ~(pc'[w] = "done" /\ http'[w] = 500)
       /\ (pc[w] = "saveCatch" /\ pc'[w] = "done") =>
            /\ http'[w] = 500
            /\ store' = store]_vars

\* the send for the first tracker failed and was recorded, the second tracker
\* was sent, and the pass returned
C13_Witness ==
  \E w \in Workers :
    /\ pc[w] = "done"
    /\ http[w] = 200
    /\ results[w].processed = 2
    /\ results[w].failed = 1
    /\ results[w].sent = 1
    /\ Len(results[w].errors) = 1
    /\ results[w].errors[1].orderId = "t1"
    /\ results[w].errors[1].error \in {StatusError, SendError}
    /\ \E d \in Days : store["t2"].emailSchedule[d].sent

\* C14: when connectToDatabase or the query of the pass fails, the handler
\* answers 500, no mail is sent and the store is as before: a request that ends
\* without entering the loop never answers 200 and changes neither the mail
\* accepted nor any slot.
C14_StoreUnreachable ==
  [][\A w \in Workers :
       (pc[w] = "idle" /\ pc'[w] = "done") =>
         /\ http'[w] \in {500, 401}
         /\ accepted' = accepted
         /\ store' = store
         /\ attempted'[w] = {}
         /\ results'[w].processed = 0]_vars

\* the query failed on a day a slot was due: 500, nothing sent
C14_Witness ==
  \E w \in Workers :
    /\ pc[w] = "done"
    /\ http[w] = 500
    /\ today[w] = StartOfDay(now)
    /\ today[w] > 0
    /\ results[w].processed = 0
    /\ Satisfying(store, today[w]) # {}
    /\ \A p \in Pairs : accepted[p[1]][p[2]] = 0 /\ ~Slot(p).sent

\* a slot of an active pending tracker, unsent, whose day is over on the day td
Overdue(p, td) ==
  /\ store[p[1]].isActive
  /\ store[p[1]].status = "pending"
  /\ ~Slot(p).sent
  /\ DayOf(Slot(p).scheduledDate) < td

\* C15: a slot still unsent after its day, of a tracker still pending, is sent by
\* a later pass: a pass that returned normally, within its budget and without
\* a failed send, leaves no such slot behind.
C15_LateCatchUp ==
  \A w \in Workers :
    (/\ pc[w] = "done"
     /\ http[w] = 200
     /\ ~results[w].timedOut
     /\ results[w].failed = 0) =>
      \A p \in Pairs : ~Overdue(p, today[w])

\* C16: every send attempt of a pass is for a slot whose scheduledDate is in
\* [today, tomorrow) of the pass, on the day of the slot and on no earlier or
\* later day; a slot unsent after its day is not attempted.
C16_DayExactWindow ==
  [][\A w \in Workers : \A p \in attempted'[w] \ attempted[w] :
       /\ Slot(p).scheduledDate >= today[w]
       /\ Slot(p).scheduledDate < Tomorrow(today[w])
       /\ DayOf(Slot(p).scheduledDate) = DayOf(now)
       /\ ~Overdue(p, DayOf(now))]_vars

\* the send of a slot failed on its day; a pass of the next day found nothing
\* and returned, the slot unsent and the tracker pending
C16_Witness ==
  \E w \in Workers, p \in Pairs :
    /\ pc[w] = "done"
    /\ http[w] = 200
    /\ found[w] = 0
    /\ results[w].processed = 0
    /\ Slot(p).error \in FailureMessages
    /\ Overdue(p, today[w])
    /\ DayOf(Slot(p).scheduledDate) = today[w] - TicksPerDay

\* C17: a pass run on the due day of a slot attempts it: when a pass returns
\* normally, every slot still unsent in its window, of a tracker active and
\* pending, was attempted by it, also when it stopped on its budget.
C17_DueSlotAttempted ==
  \A w \in Workers :
    (pc[w] = "done" /\ http[w] = 200) =>
      \A p \in Pairs :
        (DueFilter(store[p[1]], today[w]) /\ SlotDue(Slot(p), today[w])) =>
          p \in attempted[w]

\* C18: once day 30 of a tracker was attempted by a pass that returned normally,
\* the send accepted or not, and no status update arrived, the tracker is
\* unreviewed and inactive.
C18_Day30AttemptCloses ==
  \A w \in Workers : \A p \in attempted[w] :
    (/\ pc[w] = "done"
     /\ http[w] = 200
     /\ p[2] = 30
     /\ adminLeft = MaxAdmin) =>
      /\ store[p[1]].status = "unreviewed"
      /\ ~store[p[1]].isActive

\* C19: the pass writes unreviewed only over a tracker whose status in the store
\* is pending.
C19_OnlyPendingToUnreviewed ==
  [][\A w \in Workers :
       (pc[w] = "close" /\ pc'[w] = "loop") =>
         store[Cur(w).orderId].status = "pending"]_vars

\* C20: a tracker closed by a pass (no status update arrived) with status
\* unreviewed has every slot sent or with a failure recorded.
C20_UnreviewedAllAttempted ==
  \A p \in Pairs :
    (store[p[1]].status = "unreviewed" /\ adminLeft = MaxAdmin) =>
      Slot(p).sent \/ Slot(p).error \in FailureMessages

\* C21: a tracker enters reviewed only from pending or unreviewed, never from
\* cancelled.
C21_NoReviewedFromCancelled ==
  [][\A id \in DOMAIN store :
       store[id].status = "cancelled" => store'[id].status # "reviewed"]_vars

Terminal == Statuses \ {"pending"}

\* C22: markAsReviewed, markAsUnreviewed and cancelTracking applied to a tracker
\* already in their target status leave status, isActive and every slot as the
\* first application left them; so does every status update of the route that
\* keeps a status other than pending.
C22_TransitionsIdempotent ==
  [][/\ \A id \in DOMAIN store : \A t \in {now, now + 1} :
          /\ LET once == markAsReviewed(store, id, now)
                 twice == markAsReviewed(once, id, t) IN
               /\ twice[id].status = once[id].status
               /\ twice[id].isActive = once[id].isActive
               /\ twice[id].emailSchedule = once[id].emailSchedule
          /\ LET once == markAsUnreviewed(store, id, now)
                 twice == markAsUnreviewed(once, id, t) IN
               /\ twice[id].status = once[id].status
               /\ twice[id].isActive = once[id].isActive
               /\ twice[id].emailSchedule = once[id].emailSchedule
          /\ LET once == cancelTracking(store, id, now)
                 twice == cancelTracking(once, id, t) IN
               /\ twice[id].status = once[id].status
               /\ twice[id].isActive = once[id].isActive
               /\ twice[id].emailSchedule = once[id].emailSchedule
     /\ adminLeft' < adminLeft =>
          \A id \in DOMAIN store :
            (store[id].status \in Terminal /\ store'[id].status = store[id].status) =>
              /\ store'[id].isActive = store[id].isActive
              /\ store'[id].emailSchedule = store[id].emailSchedule]_vars

\* the route was called twice with no pass in between; the tracker is cancelled
\* and inactive, its slots as created
C22_Witness ==
  /\ adminLeft = MaxAdmin - 1
  /\ passesLeft = 1
  /\ store["t1"].status = "cancelled"
  /\ ~store["t1"].isActive
  /\ store["t1"].emailSchedule = createScheduledDates(store["t1"].submissionDate)

\* submission dates at every time of day of two days
SampleDates == 0 .. (2 * TicksPerDay)

\* C23: the schedule createScheduledDates builds from D has its slots at D + 3,
\* D + 7, D + 14 and D + 30 days, at the time of day of D, each unsent; every
\* tracker of the store has its slots at these dates, and unsent before the
\* first pass.
C23_ScheduledDates ==
  /\ \A D \in SampleDates : \A d \in Days :
       LET slot == createScheduledDates(D)[d] IN
         /\ slot.scheduledDate = D + d * TicksPerDay
         /\ DayOf(slot.scheduledDate) = DayOf(D) + d * TicksPerDay
         /\ slot.scheduledDate - DayOf(slot.scheduledDate) = D - DayOf(D)
         /\ ~slot.sent
  /\ \A p \in Pairs :
       /\ Slot(p).scheduledDate = store[p[1]].submissionDate + p[2] * TicksPerDay
       /\ (passesLeft = MaxPasses) => ~Slot(p).sent

\* the tracker as created, its day-3 slot due now
C23_Witness ==
  /\ passesLeft = MaxPasses
  /\ adminLeft = MaxAdmin
  /\ store["t1"] = NewTracker("t1", store["t1"].submissionDate)
  /\ SlotDue(store["t1"].emailSchedule[3], StartOfDay(now))

\* C24: no step changes the scheduledDate of a slot, the orderId or the
\* submissionDate of a tracker, or the set of trackers.
C24_CreationFieldsFrozen ==
  [][/\ DOMAIN store' = DOMAIN store
     /\ \A id \in DOMAIN store :
          /\ store'[id].orderId = store[id].orderId
          /\ store'[id].submissionDate = store[id].submissionDate
          /\ \A d \in Days :
               store'[id].emailSchedule[d].scheduledDate =
                 store[id].emailSchedule[d].scheduledDate]_vars

\* both passes and the status update are over: a slot was sent and saved, the
\* tracker was updated by the route, and the slot is at the date it was created with
C24_Witness ==
  /\ adminLeft = 0
  /\ passesLeft = 0
  /\ \E d \in Days :
       /\ store["t1"].emailSchedule[d].sent
       /\ accepted["t1"][d] = 1
       /\ store["t1"].emailSchedule[d].scheduledDate = AddDays(store["t1"].submissionDate, d)
  /\ store["t1"].updatedAt = now
  /\ store["t1"].orderId = "t1"

\* C25: every write of a tracker sets its updatedAt to the time of the write.
C25_UpdatedAtBumped ==
  [][\A id \in DOMAIN store :
       store'[id] # store[id] => store'[id].updatedAt = now]_vars

\* the tracker st[id] with the slot fields a send writes and the fields the
\* closure writes left out
SlotFrame(st, id, d) ==
  [st[id] EXCEPT !.emailSchedule[d] = NewSlot(@.scheduledDate)]
CloseFrame(st, id) ==
  [st[id] EXCEPT !.status = "pending", !.isActive = TRUE, !.updatedAt = 0]

\* C26: a step of a pass changes no tracker but the one the pass is processing;
\* of that tracker it changes the sent, sentAt, error and messageId of the slot
\* attempted, or, closing it after day 30 was sent, status, isActive and
\* updatedAt; it deletes no tracker.  The trackers not found and those skipped
\* on the time budget are never the one processed.
C26_PassFrame ==
  [][adminLeft' = adminLeft =>
       /\ DOMAIN store' = DOMAIN store
       /\ \A id \in DOMAIN store :
            store'[id] # store[id] =>
              \E w \in Workers :
                /\ Running(w)
                /\ trackers[w] # <<>>
                /\ Cur(w).orderId = id
                /\ <<id, day[w]>> \in attempted[w]
                /\ \/ /\ pc[w] \in {"saveSent", "saveFailed", "saveCatch"}
                      /\ SlotFrame(store', id, day[w]) = SlotFrame(store, id, day[w])
                   \/ /\ pc[w] = "close"
                      /\ Cur(w).emailSchedule[30].sent
                      /\ CloseFrame(store', id) = CloseFrame(store, id)
       /\ \A w \in Workers :
            (pc'[w] = "done" /\ results'[w].timedOut) =>
              \A i \in 1 .. Len(trackers'[w]) :
                 \A d \in Days : <<trackers'[w][i].orderId, d>> \notin attempted'[w]]_vars

\* the pass sent day 30 of t1, closed it, and its budget ended before t2: t2 is
\* as created
C26_Witness ==
  \E w \in Workers :
    /\ pc[w] = "done"
    /\ results[w].timedOut
    /\ results[w].skipped = 1
    /\ adminLeft = 1
    /\ store["t1"].emailSchedule[30].sent
    /\ store["t1"].status = "unreviewed"
    /\ store["t2"] = NewTracker("t2", store["t2"].submissionDate)

\* C27: two overlapping passes can both hold the same tracker with the same slot
\* unsent and both have its message accepted.  A pass selects the day from its
\* own copy of the tracker alone: the unsent slot of the copy in [today,
\* tomorrow); and while another pass has the message of that tracker accepted
\* and not yet saved, the slot is unsent in the store and in the copy, so the
\* pass selects the same day.
C27_DoubleSendNotPrevented ==
  \A w \in Workers :
    (pc[w] = "loop" /\ trackers[w] # <<>>) =>
      /\ \A d \in Days :
           (/\ ~Cur(w).emailSchedule[d].sent
            /\ InWindow(Cur(w).emailSchedule[d].scheduledDate, today[w])) =>
             DayToSend(Cur(w), today[w]) = d
      /\ \A v \in Workers \ {w} :
           (pc[v] = "saveSent" /\ Cur(v).orderId = Cur(w).orderId) =>
             /\ ~store[Cur(v).orderId].emailSchedule[day[v]].sent
             /\ ~Cur(w).emailSchedule[day[v]].sent
             /\ InWindow(Cur(w).emailSchedule[day[v]].scheduledDate, today[w])

\* both passes have had the message of the same tracker and day accepted, and
\* neither has saved
C27_Witness ==
  /\ pc["w1"] = "saveSent"
  /\ pc["w2"] = "saveSent"
  /\ Cur("w1").orderId = Cur("w2").orderId
  /\ day["w1"] = day["w2"]
  /\ accepted[Cur("w1").orderId][day["w1"]] = 2
  /\ ~store[Cur("w1").orderId].emailSchedule[day["w1"]].sent

\* C28: a tracker whose day-30 slot is stored sent while it is pending (the pass
\* was interrupted or the save of markAsUnreviewed failed) is moved to
\* unreviewed by a later pass: a pass that returned normally within its budget,
\* with no status update of the route, leaves no such tracker.
C28_Day30ClosedLater ==
  \A w \in Workers :
    (/\ pc[w] = "done"
     /\ http[w] = 200
     /\ ~results[w].timedOut
     /\ adminLeft = MaxAdmin) =>
      \A id \in DOMAIN store :
        ~(store[id].emailSchedule[30].sent /\ store[id].status = "pending")

\* C29: when a message was accepted and the pass is interrupted or the save
\* fails before the slot is saved sent, the slot stays unsent in the store, and
\* the next pass of the same day, the tracker still pending and active, finds
\* the tracker and selects the slot again.
C29_AcceptedUnsavedRetried ==
  [][\A w \in Workers :
       /\ (/\ pc[w] \in {"saveSent", "saveCatch"}
           /\ accepted[Cur(w).orderId][day[w]] >= 1
           /\ CurSlot(w).sentAt # NoDate
           /\ pc'[w] \notin {"loop", "close"} \/ pc[w] = "saveCatch") =>
            ~store'[Cur(w).orderId].emailSchedule[day[w]].sent
       /\ (pc[w] = "idle" /\ pc'[w] = "loop") =>
            \A p \in Pairs :
              (/\ accepted[p[1]][p[2]] >= 1
               /\ SlotDue(Slot(p), StartOfDay(now))
               /\ DueFilter(store[p[1]], StartOfDay(now))) =>
                \E i \in 1 .. Len(trackers'[w]) :
                  /\ trackers'[w][i].orderId = p[1]
                  /\ DayToSend(trackers'[w][i], today'[w]) = p[2]]_vars

\* a message was accepted and lost before the save; a later pass of the same day
\* attempted the slot again and a second message was accepted
C29_Witness ==
  \E w \in Workers :
    /\ pc[w] = "saveSent"
    /\ passesLeft = 0
    /\ ticks = 0
    /\ accepted[Cur(w).orderId][day[w]] = 2
    /\ ~store[Cur(w).orderId].emailSchedule[day[w]].sent

\* C30: a send is attempted only for a tracker whose status in the store is
\* pending when the send is made.
C30_NoSendUnlessPending ==
  [][\A w \in Workers : \A p \in attempted'[w] \ attempted[w] :
       store[p[1]].status = "pending"]_vars

\* C31: the summary a pass returns satisfies processed = sent + failed; errors
\* has one entry per failed attempt, with the orderId and the day of an attempt
\* of the pass; processed is at most the size of the due set; without a timeout
\* skipped = 0 and processed is the size of the due set; with a timeout
\* skipped >= 1 and processed + skipped is the size of the due set.
C31_SummaryArithmetic ==
  \A w \in Workers :
    (pc[w] = "done" /\ http[w] = 200) =>
      LET r == results[w] IN
        /\ r.processed = r.sent + r.failed
        /\ Len(r.errors) = r.failed
        /\ \A i \in 1 .. Len(r.errors) :
             /\ <<r.errors[i].orderId, r.errors[i].day>> \in attempted[w]
             /\ r.errors[i].error \in FailureMessages
             /\ \A j \in 1 .. Len(r.errors) :
                  r.errors[j].orderId = r.errors[i].orderId => j = i
        /\ r.processed <= found[w]
        /\ ~r.timedOut => (r.skipped = 0 /\ r.processed = found[w])
        /\ r.timedOut => (r.skipped >= 1 /\ r.processed + r.skipped = found[w])

\* a pass over two due trackers sent one, failed one and timed out on neither
C31_Witness ==
  \E w \in Workers :
    /\ pc[w] = "done"
    /\ http[w] = 200
    /\ found[w] = 2
    /\ ~results[w].timedOut
    /\ results[w].sent = 1
    /\ results[w].failed = 1
    /\ Len(results[w].errors) = 1

\* C32: a request the cron handler answers 401, or 500 before it connects, runs
\* no pass: no tracker is read, none is modified and no mail is sent; a pass is
\* entered only by a request that was not rejected.
C32_RejectedRequestTouchesNothing ==
  [][\A w \in Workers :
       /\ (pc[w] = "idle" /\ pc'[w] = "done" /\ today'[w] = today[w]) =>
            /\ http'[w] \in {500, 401}
            /\ store' = store
            /\ accepted' = accepted
            /\ trackers'[w] = <<>>
            /\ found'[w] = 0
            /\ attempted'[w] = {}
            /\ passesLeft' = passesLeft
       /\ (pc[w] = "idle" /\ http'[w] = 401) =>
            (pc'[w] = "done" /\ trackers'[w] = <<>> /\ today'[w] = today[w])
       /\ (pc[w] = "idle" /\ pc'[w] = "loop") => http'[w] = 0]_vars

\* a request was answered 401 on a day a tracker was due: the tracker is as it
\* was created and no message was accepted
C32_Witness ==
  \E w \in Workers :
    /\ pc[w] = "done"
    /\ http[w] = 401
    /\ Satisfying(store, StartOfDay(now)) # {}
    /\ trackers[w] = <<>>
    /\ passesLeft = MaxPasses
    /\ \A p \in Pairs : accepted[p[1]][p[2]] = 0 /\ Slot(p).error = Undefined

\* C33: without SENDGRID_API_KEY, sendFeedbackEmail calls no mail capability,
\* sets the slot's error to 'SendGrid API key not configured', leaves sent,
\* sentAt and messageId as they were, in memory and in the store, and returns
\* success = false: the pass counts the attempt as failed.
C33_NoKeyRecorded ==
  [][\A w \in Workers :
       /\ (/\ pc[w] = "loop"
           /\ pc'[w] = "saveFailed"
           /\ trackers'[w][1].emailSchedule[day'[w]].error = NoKeyError) =>
            /\ accepted' = accepted
            /\ trackers'[w][1].emailSchedule[day'[w]] =
                 [Cur(w).emailSchedule[day'[w]] EXCEPT !.error = NoKeyError]
            /\ dirty'[w] \subseteq {"error"}
       /\ (/\ pc[w] = "saveFailed"
           /\ CurSlot(w).error = NoKeyError
           /\ pc'[w] \in {"loop", "close"}) =>
            LET id == Cur(w).orderId
                d == day[w] IN
              /\ store'[id].emailSchedule[d] =
                   [store[id].emailSchedule[d] EXCEPT !.error = NoKeyError]
              /\ results'[w].failed = results[w].failed + 1
              /\ results'[w].sent = results[w].sent
              /\ results'[w].errors =
                   Append(results[w].errors,
                          [orderId |-> id, day |-> d, error |-> NoKeyError])]_vars

\* a slot whose first message was accepted and whose save failed was attempted
\* again without the key: sentAt is kept, the error is the missing key, and the
\* pass counted one failure
C33_Witness ==
  \E w \in Workers :
    /\ pc[w] = "done"
    /\ http[w] = 200
    /\ results[w].failed = 1
    /\ results[w].errors[1].error = NoKeyError
    /\ \E p \in Pairs :
         /\ Slot(p).error = NoKeyError
         /\ ~Slot(p).sent
         /\ Slot(p).sentAt # NoDate
         /\ accepted[p[1]][p[2]] = 1

\* C34: once a slot is sent = true in the store, no later operation sets it back
\* to false: not a later pass, not the failure path of sendFeedbackEmail, not an
\* overlapping pass that saves a copy loaded before.
C34_SentNeverUnset ==
  [][\A p \in Pairs : Slot(p).sent => store'[p[1]].emailSchedule[p[2]].sent]_vars

\* C35: when passes do not overlap, each runs to completion and every store
\* write succeeds, the mail capability accepts at most one message for each
\* tracker and milestone.
C35_AtMostOneAccepted ==
  \A p \in Pairs : accepted[p[1]][p[2]] <= 1

\* the first pass of the day sent the slot and saved it; the second pass of the
\* same day found no tracker
C35_Witness ==
  \E w \in Workers : \E p \in Pairs :
    /\ pc[w] = "done"
    /\ http[w] = 200
    /\ passesLeft = 0
    /\ ticks = 0
    /\ found[w] = 0
    /\ accepted[p[1]][p[2]] = 1
    /\ Slot(p).sent
    /\ InWindow(Slot(p).scheduledDate, today[w])

\* C36: the slots createScheduledDates builds fall on four different days, so
\* no two slots of a tracker it built have their scheduledDate in the same
\* [today, tomorrow) window: the tracker a pass holds has at most one slot the
\* loop can select, and the order of daysToCheck never decides.
C36_OneSlotPerWindow ==
  /\ \A sub \in SampleDates :
       LET made == createScheduledDates(sub) IN
         \A d1, d2 \in Days :
           d1 # d2 => DayOf(made[d1].scheduledDate) # DayOf(made[d2].scheduledDate)
  /\ \A id \in DOMAIN store : \A d1, d2 \in Days :
       d1 # d2 =>
         ~InWindow(store[id].emailSchedule[d2].scheduledDate,
                   StartOfDay(store[id].emailSchedule[d1].scheduledDate))
  /\ \A w \in Workers :
       (Running(w) /\ trackers[w] # <<>>) =>
         Cardinality({d \in Days : SlotDue(Cur(w).emailSchedule[d], today[w])}) <= 1

\* a pass is saving the day-30 message of a tracker: that slot is the only one
\* of the tracker in the window of the pass
C36_Witness ==
  \E w \in Workers :
    /\ pc[w] = "saveSent"
    /\ day[w] = 30
    /\ {d \in Days : InWindow(store[Cur(w).orderId].emailSchedule[d].scheduledDate,
                              today[w])} = {30}

\* C37: on a day with more than MAX_EMAILS_PER_RUN due trackers, a tracker whose
\* send keeps failing does not keep the others from being attempted: once the
\* passes of the day have run, every tracker still due has been attempted by one
\* of them.
C37_NoStarvation ==
  \A w \in Workers :
    (/\ pc[w] = "done"
     /\ http[w] = 200
     /\ passesLeft = 0
     /\ adminLeft = MaxAdmin
     /\ results[w].failed = MAX_EMAILS_PER_RUN) =>
      \A id \in DOMAIN store :
        DueFilter(store[id], today[w]) =>
          \E d \in Days : store[id].emailSchedule[d].error # Undefined

\* what is left of a pass: the trackers not yet iterated over, and within an
\* iteration the awaits still ahead
Measure(at, n) ==
  CASE at = "loop" -> 5 * n + 4
    [] at \in {"saveSent", "saveFailed"} -> 5 * n + 3
    [] at = "saveCatch" -> 5 * n + 2
    [] at = "close" -> 5 * n + 1
    [] OTHER -> 0

\* C38: every pass terminates. Each step of a pass brings it nearer to its end:
\* the due set is queried once, holds at most MAX_EMAILS_PER_RUN trackers and
\* only shrinks, each tracker of it gets at most one iteration, and the pass
\* ends with a summary (200) or a throw (500).
C38_PassTerminates ==
  [][\A w \in Workers :
       Running(w) =>
         /\ found[w] <= MAX_EMAILS_PER_RUN
         /\ results[w].processed + Len(trackers[w]) <=
              found[w] + (IF pc[w] = "loop" THEN 0 ELSE 1)
         /\ (pc'[w] # pc[w] \/ trackers'[w] # trackers[w]
               \/ results'[w] # results[w]) =>
              /\ Measure(pc'[w], Len(trackers'[w])) <
                   Measure(pc[w], Len(trackers[w]))
              /\ pc'[w] = "done" => http'[w] \in {200, 500}
              /\ pc'[w] # "idle" =>
                   /\ found'[w] = found[w]
                   /\ today'[w] = today[w]
                   /\ Len(trackers[w]) - Len(trackers'[w]) \in {0, 1}
                   /\ \A i \in 1 .. Len(trackers'[w]) :
                        trackers'[w][i].orderId =
                          trackers[w][i + Len(trackers[w]) - Len(trackers'[w])].orderId
                   /\ results'[w].processed - results[w].processed \in {0, 1}]_vars

\* a pass over two due trackers made two iterations, sent both and returned
C38_Witness ==
  \E w \in Workers :
    /\ pc[w] = "done"
    /\ http[w] = 200
    /\ found[w] = 2
    /\ trackers[w] = <<>>
    /\ results[w].processed = 2
    /\ results[w].sent = 2

====
